---------------------------- MODULE Spec2Model ----------------------------
(***************************************************************************)
(* Model of reviewer.py (AutoReviewBot).                                   *)
(*                                                                         *)
(* Text is a sequence of characters; a character is a one-character        *)
(* string (control characters without a TLA+ escape carry their name).     *)
(* filter_excluded_files and the string methods it uses are operators      *)
(* computed the way the Python code computes them; main is a state         *)
(* machine with one action per step of the function.                       *)
(*                                                                         *)
(*   Spec        a run of main()                                           *)
(*   FilterSpec  filter_excluded_files applied to a diff text and a suffix *)
(*               list drawn from bounded pools, then applied again to its  *)
(*               own result                                                *)
(***************************************************************************)
EXTENDS Integers, Sequences, FiniteSets, TLC

VARIABLES
    \* ---- filter_excluded_files under FilterSpec
    fpc,            \* "start", "once" (filtered), "twice" (filtered again)
    diff,           \* parameter diff
    excluded_exts,  \* parameter excluded_exts
    result,         \* filter_excluded_files(diff, excluded_exts)
    result2,        \* filter_excluded_files(result, excluded_exts)
    \* ---- main under Spec
    pc,             \* the statement main is at, or how it ended
    args,           \* parser.parse_args(): [url, pre_commit]
    cmd,            \* get_local_diff: the command run
    source_event,   \* what the subprocess or the HTTP request did
    raw_diff,       \* what the diff source returned
    diff_content,   \* main's diff_content
    context,        \* main's context
    feedback,       \* main's feedback
    exit_code,      \* the process exit status
    exception,      \* the uncaught exception, if any
    review_calls,   \* history: calls of call_openai_api
    review_arg,     \* history: the diff_content call_openai_api received
    steps           \* history: the steps taken, in order

fvars == <<fpc, diff, excluded_exts, result, result2>>

mvars == <<pc, args, cmd, source_event, raw_diff, diff_content, context, feedback,
           exit_code, exception, review_calls, review_arg, steps>>

vars == <<fvars, mvars>>

(***************************************************************************)
(* Bounds                                                                  *)
(***************************************************************************)
\* longest diff text of FilterSpec, in lines
MaxLines == 3

(***************************************************************************)
(* Python str methods                                                      *)
(***************************************************************************)
\* str.isspace characters (str.strip() and str.split() without arguments)
WhiteSpace == {" ", "\t", "\n", "\r", "\f", "VT", "FS", "GS", "RS", "US", "NEL", "NBSP", "LS", "PS"}

\* the line boundaries of str.splitlines
LineBreaks == {"\n", "\r", "\f", "VT", "FS", "GS", "RS", "NEL", "LS", "PS"}

\* s.startswith(p)
StartsWith(s, p) == Len(s) >= Len(p) /\ SubSeq(s, 1, Len(p)) = p

\* s.endswith(p)
EndsWith(s, p) == Len(s) >= Len(p) /\ SubSeq(s, Len(s) - Len(p) + 1, Len(s)) = p

RECURSIVE LStrip(_)
LStrip(s) == IF s # <<>> /\ Head(s) \in WhiteSpace THEN LStrip(Tail(s)) ELSE s

RECURSIVE RStrip(_)
RStrip(s) ==
    IF s # <<>> /\ s[Len(s)] \in WhiteSpace THEN RStrip(SubSeq(s, 1, Len(s) - 1)) ELSE s

\* s.strip()
Strip(s) == RStrip(LStrip(s))

\* s.splitlines(keepends=False), scanning from position i with the line cur open
RECURSIVE SplitLinesFrom(_, _, _)
SplitLinesFrom(s, i, cur) ==
    IF i > Len(s)
    THEN IF cur = <<>> THEN <<>> ELSE <<cur>>
    ELSE IF s[i] \in LineBreaks
         THEN LET crlf == s[i] = "\r" /\ i < Len(s) /\ s[i + 1] = "\n"
              IN  <<cur>> \o SplitLinesFrom(s, IF crlf THEN i + 2 ELSE i + 1, <<>>)
         ELSE SplitLinesFrom(s, i + 1, Append(cur, s[i]))

SplitLines(s) == SplitLinesFrom(s, 1, <<>>)

\* s.split(): the maximal runs of non-whitespace characters
RECURSIVE SplitFrom(_, _, _)
SplitFrom(s, i, cur) ==
    IF i > Len(s)
    THEN IF cur = <<>> THEN <<>> ELSE <<cur>>
    ELSE IF s[i] \in WhiteSpace
         THEN (IF cur = <<>> THEN <<>> ELSE <<cur>>) \o SplitFrom(s, i + 1, <<>>)
         ELSE SplitFrom(s, i + 1, Append(cur, s[i]))

Split(s) == SplitFrom(s, 1, <<>>)

\* sep.join(seq)
RECURSIVE Join(_, _)
Join(sep, seq) ==
    IF seq = <<>> THEN <<>>
    ELSE IF Len(seq) = 1 THEN seq[1]
    ELSE seq[1] \o sep \o Join(sep, Tail(seq))

\* needle in s
Contains(s, needle) ==
    \E k \in 0..(Len(s) - Len(needle)) : SubSeq(s, k + 1, k + Len(needle)) = needle

(***************************************************************************)
(* filter_excluded_files                                                   *)
(***************************************************************************)
EXCLUDED_EXTENSIONS ==
    << <<".", "p", "b", "x", "p", "r", "o", "j">>,
       <<".", "s", "t", "o", "r", "y", "b", "o", "a", "r", "d">>,
       <<".", "s", "v", "g">>,
       <<".", "p", "n", "g">>,
       <<".", "j", "p", "g">>,
       <<".", "j", "p", "e", "g">>,
       <<".", "g", "i", "f">>,
       <<".", "i", "c", "o">> >>

diff_header_prefix == <<"d", "i", "f", "f", " ", "-", "-", "g", "i", "t", " ">>

\* len(parts) >= 4
MinParts == 4

\* parts[2][2:] and parts[3][2:]: the length of the 'a/' and 'b/' prefix
PrefixLen == 2

\* token[2:]
DropPrefix(token) == SubSeq(token, PrefixLen + 1, Len(token))

\* the for loop over excluded_exts: some ext ends file_a or file_b
ExtMatches(file_a, file_b, exts) ==
    \E k \in 1..Len(exts) : EndsWith(file_a, exts[k]) \/ EndsWith(file_b, exts[k])

\* HeaderSkip, were a third token enough to look for a path
HeaderSkip_ThreeParts(line, exts) ==
    LET parts == Split(line)
    IN  IF Len(parts) >= MinParts - 1
        THEN ExtMatches(DropPrefix(parts[3]),
                        IF Len(parts) >= MinParts THEN DropPrefix(parts[4]) ELSE <<>>, exts)
        ELSE FALSE

\* skip_current_chunk as the header branch leaves it
HeaderSkip(line, exts) ==
    LET parts == Split(line)
    IN  IF Len(parts) >= MinParts
        THEN ExtMatches(DropPrefix(parts[3]), DropPrefix(parts[4]), exts)
        ELSE FALSE

\* finalize_chunk, were a skipped chunk to lose its header line only
finalize_chunk_KeepsBody(kept_chunks, current_chunk_lines, skip_current_chunk) ==
    IF current_chunk_lines = <<>>
    THEN kept_chunks
    ELSE IF skip_current_chunk
         THEN kept_chunks \o Tail(current_chunk_lines)
         ELSE kept_chunks \o current_chunk_lines

\* finalize_chunk, were the chunk put in front of the kept ones
finalize_chunk_Prepends(kept_chunks, current_chunk_lines, skip_current_chunk) ==
    IF ~skip_current_chunk /\ current_chunk_lines # <<>>
    THEN current_chunk_lines \o kept_chunks
    ELSE kept_chunks

\* finalize_chunk(): kept_chunks after the call
finalize_chunk(kept_chunks, current_chunk_lines, skip_current_chunk) ==
    IF ~skip_current_chunk /\ current_chunk_lines # <<>>
    THEN kept_chunks \o current_chunk_lines
    ELSE kept_chunks

\* LoopInit, were the lines before the first header skipped
LoopInit_Skipping ==
    [kept_chunks |-> <<>>, current_chunk_lines |-> <<>>, skip_current_chunk |-> TRUE]

\* the locals of filter_excluded_files before the loop
LoopInit ==
    [kept_chunks |-> <<>>, current_chunk_lines |-> <<>>, skip_current_chunk |-> FALSE]

\* one iteration of "for line in lines"
LoopBody(st, line, exts) ==
    IF StartsWith(line, diff_header_prefix)
    THEN [kept_chunks |-> finalize_chunk(st.kept_chunks, st.current_chunk_lines,
                                         st.skip_current_chunk),
          current_chunk_lines |-> <<line>>,
          skip_current_chunk |-> HeaderSkip(line, exts)]
    ELSE [st EXCEPT !.current_chunk_lines = Append(@, line)]

\* the locals after the iterations over lines[1..n]
RECURSIVE Loop(_, _, _)
Loop(lines, n, exts) ==
    IF n = 0 THEN LoopInit ELSE LoopBody(Loop(lines, n - 1, exts), lines[n], exts)

\* kept_chunks at the return statement
KeptChunks(text, exts) ==
    LET lines == SplitLines(text)
        st    == Loop(lines, Len(lines), exts)
    IN  finalize_chunk(st.kept_chunks, st.current_chunk_lines, st.skip_current_chunk)

\* filter_excluded_files, were two newlines appended
filter_excluded_files_TwoNewlines(text, exts) ==
    IF Strip(text) = <<>>
    THEN text
    ELSE Join(<<"\n">>, KeptChunks(text, exts)) \o <<"\n", "\n">>

\* filter_excluded_files, were no newline appended
filter_excluded_files_NoNewline(text, exts) ==
    IF Strip(text) = <<>>
    THEN text
    ELSE Join(<<"\n">>, KeptChunks(text, exts))

\* filter_excluded_files(diff, excluded_exts)
filter_excluded_files(text, exts) ==
    IF Strip(text) = <<>>
    THEN text
    ELSE Join(<<"\n">>, KeptChunks(text, exts)) \o <<"\n">>

(***************************************************************************)
(* Input pools                                                             *)
(***************************************************************************)
PathGo    == <<"m", ".", "g", "o">>
PathPng   == <<"l", ".", "p", "n", "g">>
PathSpace == <<"a", " ", "b", ".", "p", "n", "g">>

PathPool == {PathGo, PathPng, PathSpace}

\* diff --git a/<pathA> b/<pathB>
HeaderLine(pathA, pathB) ==
    diff_header_prefix \o <<"a", "/">> \o pathA \o <<" ", "b", "/">> \o pathB

\* a header whose b/ token is missing
TruncatedHeader(pathA) == diff_header_prefix \o <<"a", "/">> \o pathA

BodyLine   == <<"+", "x", "\r">>
QuotedLine == <<" ">> \o HeaderLine(PathPng, PathPng)

LinePool ==
    { HeaderLine(PathGo, PathGo), HeaderLine(PathPng, PathPng),
      HeaderLine(PathSpace, PathSpace),
      TruncatedHeader(PathPng), BodyLine, QuotedLine, <<>> }

SuffixPool == { <<>>, << <<".", "g", "o">> >>, EXCLUDED_EXTENSIONS }

LineSeqs == UNION { [1..n -> LinePool] : n \in 0..MaxLines }

\* every text of at most MaxLines pool lines, ended by a newline or not
DiffPool ==
    { Join(<<"\n">>, ls) \o tail : ls \in LineSeqs, tail \in {<<>>, <<"\n">>} }

(***************************************************************************)
(* The diff sources and the review call                                    *)
(***************************************************************************)
\* Python's None, where the value is otherwise text or a list
None == <<"None">>

\* a function's outcome: a returned value, or an exception leaving it
Return(v) == [raised |-> FALSE, value |-> v]
Raise(e)  == [raised |-> TRUE, value |-> e]

Digits == {"0", "1", "2", "3", "4", "5", "6", "7", "8", "9"}

\* p occurs in s at position i
OccursAt(s, i, p) == i + Len(p) - 1 <= Len(s) /\ SubSeq(s, i, i + Len(p) - 1) = p

\* re.search(r"github\.com/([^/]+)/([^/]+)/pull/(\d+)", url)
PrUrlMatch(url) ==
    LET host == <<"g", "i", "t", "h", "u", "b", ".", "c", "o", "m", "/">>
        pull == <<"p", "u", "l", "l", "/">>
    IN  \E i \in 1..Len(url) :
            /\ OccursAt(url, i, host)
            /\ \E a \in (i + Len(host))..Len(url), b \in (i + Len(host))..Len(url) :
                   /\ a < b
                   /\ \A k \in (i + Len(host))..(a - 1) : url[k] # "/"
                   /\ a > i + Len(host)
                   /\ url[a] = "/"
                   /\ \A k \in (a + 1)..(b - 1) : url[k] # "/"
                   /\ b > a + 1
                   /\ url[b] = "/"
                   /\ OccursAt(url, b + 1, pull)
                   /\ b + Len(pull) + 1 <= Len(url)
                   /\ url[b + Len(pull) + 1] \in Digits

\* get_local_diff(only_staged), the subprocess doing proc
get_local_diff(only_staged, proc) ==
    CASE proc.event = "output"             -> Return(proc.text)
      [] proc.event = "CalledProcessError" -> Return(<<>>)
      [] OTHER                             -> Raise(proc.event)

\* the command get_local_diff builds
LocalDiffCmd(only_staged) ==
    IF only_staged THEN <<"git", "diff", "--staged">> ELSE <<"git", "diff">>

\* get_github_pr_diff(url), the HTTP request doing http
get_github_pr_diff(url, http) ==
    IF ~PrUrlMatch(url)
    THEN Return(<<>>)
    ELSE IF http.event = "output" THEN Return(http.text) ELSE Return(<<>>)

APPROVED == <<"A", "P", "P", "R", "O", "V", "E", "D">>

NoDiffMessage ==
    <<"N", "o", " ", "d", "i", "f", "f", " ", "c", "o", "n", "t", "e", "n", "t", " ",
      "p", "r", "o", "v", "i", "d", "e", "d", ".">>

ApiErrorPrefix ==
    <<"E", "r", "r", "o", "r", " ", "c", "a", "l", "l", "i", "n", "g", " ",
      "O", "p", "e", "n", "A", "I", " ", "A", "P", "I", ":", " ">>

\* call_openai_api(diff_content, context), the OpenAI client doing api
call_openai_api(text, ctx, api) ==
    IF Strip(text) = <<>>
    THEN Return(NoDiffMessage)
    ELSE CASE api.event = "OpenAIError" -> Raise(api.event)
           [] api.event = "output"      -> Return(Strip(api.text))
           [] OTHER                     -> Return(ApiErrorPrefix \o api.text)

\* Approved, were the verdict compared with the word instead of searched for it
Approved_Exact(text) == text = APPROVED

\* "APPROVED" in feedback
Approved(text) == Contains(text, APPROVED)

(***************************************************************************)
(* What the environment can do                                             *)
(***************************************************************************)
UrlPr    == <<"g", "i", "t", "h", "u", "b", ".", "c", "o", "m", "/", "o", "/", "r", "/",
              "p", "u", "l", "l", "/", "7">>
UrlIssue == <<"g", "i", "t", "h", "u", "b", ".", "c", "o", "m", "/", "o", "/", "r", "/",
              "i", "s", "s", "u", "e", "s", "/", "7">>

\* the values of --url: absent, empty, a pull request, not a pull request
UrlPool == {None, <<>>, UrlPr, UrlIssue}

Text(ls) == Join(<<"\n">>, ls) \o <<"\n">>

\* the diff texts git or GitHub may answer with
SourceDiffs ==
    { <<>>,
      <<" ", "\n">>,
      Text(<<BodyLine>>),
      Text(<<HeaderLine(PathGo, PathGo), BodyLine>>),
      Text(<<HeaderLine(PathPng, PathPng), BodyLine>>),
      Text(<<HeaderLine(PathGo, PathGo), BodyLine, HeaderLine(PathPng, PathPng), BodyLine>>),
      Text(<<BodyLine, HeaderLine(PathPng, PathPng), BodyLine>>),
      Text(<<HeaderLine(PathSpace, PathSpace), BodyLine>>) }

ProcEvents ==
    {[event |-> "output", text |-> d] : d \in SourceDiffs}
        \cup {[event |-> "CalledProcessError"], [event |-> "FileNotFoundError"]}

HttpEvents ==
    {[event |-> "output", text |-> d] : d \in SourceDiffs}
        \cup {[event |-> "RequestException"]}

ApiEvents ==
    {[event |-> "output", text |-> t] :
        t \in { <<" ">> \o APPROVED \o <<"\n">>,
                <<"N", "O", "T", " ">> \o APPROVED \o <<".">>,
                <<"a", "p", "p", "r", "o", "v", "e", "d">>,
                <<"L", "o", "o", "k", "s", " ", "r", "i", "s", "k", "y">> }}
        \cup {[event |-> "Exception", text |-> <<"t", "i", "m", "e", "o", "u", "t">>],
              [event |-> "OpenAIError"]}

(***************************************************************************)
(* main                                                                    *)
(***************************************************************************)
MainInit ==
    /\ pc = "parse_args"
    /\ args = None
    /\ cmd = None
    /\ source_event = "None"
    /\ raw_diff = None
    /\ diff_content = None
    /\ context = "None"
    /\ feedback = None
    /\ exit_code = None
    /\ exception = "None"
    /\ review_calls = 0
    /\ review_arg = None
    /\ steps = <<>>

\* sys.exit(code) at the statement named by how
Exit(how, code) ==
    /\ pc' = how
    /\ exit_code' = code
    /\ steps' = Append(steps, "exit")

\* an exception no handler catches: traceback, status 1
Uncaught(e) ==
    /\ pc' = "traceback"
    /\ exception' = e
    /\ exit_code' = 1
    /\ steps' = Append(steps, "exit")

\* parser.parse_args(): the parsed arguments, or argparse's own exit
\* (status 0 after --help, status 2 after a usage error)
ParseArgs ==
    /\ pc = "parse_args"
    /\ \/ /\ \E u \in UrlPool, p \in BOOLEAN : args' = [url |-> u, pre_commit |-> p]
          /\ pc' = "get_diff"
          /\ UNCHANGED <<exit_code, steps>>
       \/ /\ \E code \in {0, 2} : Exit("argparse_exit", code)
          /\ UNCHANGED args
    /\ UNCHANGED <<cmd, source_event, raw_diff, diff_content, context, feedback,
                   exception, review_calls, review_arg>>
    /\ UNCHANGED fvars

\* diff_content assigned from the source's outcome r
GotDiff(r, ctx, event, command) ==
    /\ source_event' = event
    /\ cmd' = command
    /\ IF r.raised
       THEN /\ Uncaught(r.value)
            /\ UNCHANGED <<raw_diff, diff_content, context>>
       ELSE /\ raw_diff' = r.value
            /\ diff_content' = r.value
            /\ context' = ctx
            /\ pc' = "filter"
            /\ steps' = Append(steps, "get_diff")
            /\ UNCHANGED <<exit_code, exception>>

\* if args.url: ... elif args.pre_commit: ... else: ...
GetDiff ==
    /\ pc = "get_diff"
    /\ IF args.url # None /\ args.url # <<>>
       THEN \E http \in HttpEvents :
                GotDiff(get_github_pr_diff(args.url, http), "GitHub PR URL",
                        IF PrUrlMatch(args.url) THEN http.event ELSE "Invalid PR URL",
                        cmd)
       ELSE \E proc \in ProcEvents :
                GotDiff(get_local_diff(args.pre_commit, proc),
                        IF args.pre_commit THEN "Staged changes" ELSE "Unstaged changes",
                        proc.event, LocalDiffCmd(args.pre_commit))
    /\ UNCHANGED <<args, feedback, review_calls, review_arg>>
    /\ UNCHANGED fvars

\* diff_content = filter_excluded_files(diff_content, EXCLUDED_EXTENSIONS)
Filter ==
    /\ pc = "filter"
    /\ diff_content' = filter_excluded_files(diff_content, EXCLUDED_EXTENSIONS)
    /\ pc' = "check_empty"
    /\ steps' = Append(steps, "filter")
    /\ UNCHANGED <<args, cmd, source_event, raw_diff, context, feedback, exit_code,
                   exception, review_calls, review_arg>>
    /\ UNCHANGED fvars

\* CheckEmpty, were the empty diff sent to the review as well
CheckEmpty_NoExit ==
    /\ pc = "check_empty"
    /\ pc' = "review"
    /\ UNCHANGED <<args, cmd, source_event, raw_diff, diff_content, context, feedback,
                   exit_code, exception, review_calls, review_arg, steps>>
    /\ UNCHANGED fvars

\* if not diff_content.strip(): sys.exit(0)
CheckEmpty ==
    /\ pc = "check_empty"
    /\ IF Strip(diff_content) = <<>>
       THEN Exit("no_diff", 0)
       ELSE pc' = "review" /\ UNCHANGED <<exit_code, steps>>
    /\ UNCHANGED <<args, cmd, source_event, raw_diff, diff_content, context, feedback,
                   exception, review_calls, review_arg>>
    /\ UNCHANGED fvars

\* feedback = call_openai_api(diff_content, context)
Review ==
    /\ pc = "review"
    /\ review_calls' = review_calls + 1
    /\ review_arg' = diff_content
    /\ \E api \in ApiEvents :
           LET r == call_openai_api(diff_content, context, api)
           IN  IF r.raised
               THEN Uncaught(r.value) /\ UNCHANGED feedback
               ELSE /\ feedback' = r.value
                    /\ pc' = "decide"
                    /\ steps' = Append(steps, "review")
                    /\ UNCHANGED <<exit_code, exception>>
    /\ UNCHANGED <<args, cmd, source_event, raw_diff, diff_content, context>>
    /\ UNCHANGED fvars

\* if "APPROVED" in feedback: sys.exit(0) else: sys.exit(1)
Decide ==
    /\ pc = "decide"
    /\ IF Approved(feedback) THEN Exit("approved", 0) ELSE Exit("not_approved", 1)
    /\ UNCHANGED <<args, cmd, source_event, raw_diff, diff_content, context, feedback,
                   exception, review_calls, review_arg>>
    /\ UNCHANGED fvars

FilterIdle ==
    /\ fpc = "idle"
    /\ diff = <<>>
    /\ excluded_exts = EXCLUDED_EXTENSIONS
    /\ result = <<>>
    /\ result2 = <<>>

Init == MainInit /\ FilterIdle

Next == ParseArgs \/ GetDiff \/ Filter \/ CheckEmpty \/ Review \/ Decide

Spec == Init /\ [][Next]_vars

(***************************************************************************)
(* FilterSpec                                                              *)
(***************************************************************************)
FilterInit ==
    /\ fpc = "start"
    /\ diff \in DiffPool
    /\ excluded_exts \in SuffixPool
    /\ result = <<>>
    /\ result2 = <<>>
    /\ MainInit

FilterOnce ==
    /\ fpc = "start"
    /\ result' = filter_excluded_files(diff, excluded_exts)
    /\ fpc' = "once"
    /\ UNCHANGED <<diff, excluded_exts, result2>>
    /\ UNCHANGED mvars

FilterAgain ==
    /\ fpc = "once"
    /\ result2' = filter_excluded_files(result, excluded_exts)
    /\ fpc' = "twice"
    /\ UNCHANGED <<diff, excluded_exts, result>>
    /\ UNCHANGED mvars

FilterNext == FilterOnce \/ FilterAgain

FilterSpec == FilterInit /\ [][FilterNext]_vars

(***************************************************************************)
(* The chunk structure of a diff text, stated on line positions            *)
(***************************************************************************)
NL == <<"\n">>

IsHeader(line) == StartsWith(line, diff_header_prefix)

\* the positions of the header lines
HeaderIdx(ls) == {i \in 1..Len(ls) : IsHeader(ls[i])}

\* the lines i..Len(ls) of ls that belong to a chunk whose header position is
\* in K, in order; own is the header position of the chunk line i - 1 belongs
\* to, 0 before the first header
RECURSIVE OwnedFrom(_, _, _, _)
OwnedFrom(ls, K, i, own) ==
    IF i > Len(ls) THEN <<>>
    ELSE LET o == IF IsHeader(ls[i]) THEN i ELSE own
         IN  (IF o \in K THEN <<ls[i]>> ELSE <<>>) \o OwnedFrom(ls, K, i + 1, o)

\* the lines of ls whose chunk's header position is in K (0: no chunk)
LinesOwnedBy(ls, K) == OwnedFrom(ls, K, 1, 0)

\* the chunk whose header is at position h
Chunk(ls, h) == LinesOwnedBy(ls, {h})

\* the lines before the first header
Preamble(ls) == LinesOwnedBy(ls, {0})

\* the text made of the lines owned by K: joined by newlines, a newline appended
TextOf(ls, K) == Join(NL, LinesOwnedBy(ls, K)) \o NL

\* the headers the scan does not skip
KeptHeaders(ls, exts) == {h \in HeaderIdx(ls) : ~HeaderSkip(ls[h], exts)}

InLines == SplitLines(diff)

Filtered == fpc = "once"

NonBlank == Strip(diff) # <<>>

\* the lines of a result: what the final newline ends, split at the newlines
OutLines(text) == IF text = NL THEN <<>> ELSE SplitLines(text)

\* the chunk at h, as whole lines, is in the result
ChunkPresent(h) == Contains(NL \o result, NL \o Join(NL, Chunk(InLines, h)) \o NL)

(***************************************************************************)
(* Claims about filter_excluded_files (FilterSpec)                         *)
(***************************************************************************)
\* a header of the form diff --git a/<pathA> b/<pathB> one of whose paths ends
\* with a suffix of exts; any other header as the scan decides it
PathExcluded(line, exts) ==
    IF \E pa \in PathPool, pb \in PathPool : line = HeaderLine(pa, pb)
    THEN \E pa \in PathPool, pb \in PathPool :
             /\ line = HeaderLine(pa, pb)
             /\ \E k \in 1..Len(exts) : EndsWith(pa, exts[k]) \/ EndsWith(pb, exts[k])
    ELSE HeaderSkip(line, exts)

\* C1: a chunk whose header is diff --git a/<pathA> b/<pathB> is omitted from
\* the result if and only if pathA or pathB ends with a suffix of the list.
C1_ExcludedIffPathEndsWithSuffix ==
    (Filtered /\ NonBlank) =>
        result = TextOf(InLines, {0} \cup {h \in HeaderIdx(InLines) :
                                              ~PathExcluded(InLines[h], excluded_exts)})

\* C2: every chunk is in the result with all its lines or with none of them:
\* the result is made of whole chunks (and the lines before the first header).
C2_ChunkAtomicity ==
    (Filtered /\ NonBlank) =>
        LET ls  == InLines
            out == OutLines(result)
        IN  \E K \in SUBSET (HeaderIdx(ls) \cup {0}) : out = LinesOwnedBy(ls, K)

C2_Witness ==
    /\ fpc = "once"
    /\ NonBlank
    /\ \E h \in HeaderIdx(InLines), g \in HeaderIdx(InLines) :
           /\ HeaderSkip(InLines[h], excluded_exts)
           /\ Len(Chunk(InLines, h)) > 1
           /\ ~HeaderSkip(InLines[g], excluded_exts)
    /\ result = TextOf(InLines, KeptHeaders(InLines, excluded_exts))

\* C3: filtering the result again gives the result.
C3_Idempotence == fpc = "twice" => result2 = result

C3_Witness ==
    /\ fpc = "twice"
    /\ Strip(result) # <<>>
    /\ result # diff
    /\ HeaderIdx(InLines) # KeptHeaders(InLines, excluded_exts)
    /\ result2 = result

\* C4 as stated: the result is the non-excluded chunks, in input order, and
\* nothing else.
C4_OnlyKeptChunks ==
    (Filtered /\ NonBlank) =>
        result = TextOf(InLines, KeptHeaders(InLines, excluded_exts))

\* C4 amended: the result is the lines before the first header followed by
\* the non-excluded chunks, in input order, each line unmodified.
C4_OrderPreservation ==
    Filtered =>
        IF NonBlank
        THEN result = TextOf(InLines, {0} \cup KeptHeaders(InLines, excluded_exts))
        ELSE result = diff

C4_Witness ==
    /\ fpc = "once"
    /\ Len(InLines) = 3
    /\ HeaderIdx(InLines) = {1, 2, 3}
    /\ KeptHeaders(InLines, excluded_exts) = {1, 3}
    /\ InLines[1] # InLines[3]
    /\ result = Text(<<InLines[1], InLines[3]>>)

\* C5 as stated: no line before the first header is in the result, and a
\* text without any header gives exactly one newline.
C5_PreambleDropped ==
    (Filtered /\ NonBlank) =>
        /\ result = NL \/ StartsWith(result, diff_header_prefix)
        /\ HeaderIdx(InLines) = {} => result = NL

\* C5 amended: the lines before the first header are kept, in order, at the
\* start of the result, and a text without any header gives all its lines.
C5_PreambleKept ==
    (Filtered /\ NonBlank) =>
        /\ Preamble(InLines) # <<>> => StartsWith(result, Text(Preamble(InLines)))
        /\ HeaderIdx(InLines) = {} => result = Text(InLines)

C5_Witness ==
    /\ fpc = "once"
    /\ NonBlank
    /\ Preamble(InLines) # <<>>
    /\ Strip(Join(NL, Preamble(InLines))) # <<>>
    /\ HeaderIdx(InLines) # {}
    /\ KeptHeaders(InLines, excluded_exts) = {}
    /\ result = Text(Preamble(InLines))

\* C6: a chunk whose header has fewer than 4 whitespace-separated tokens is
\* in the result, whatever the suffix list.
C6_ShortHeaderKept ==
    (Filtered /\ NonBlank) =>
        \A h \in HeaderIdx(InLines) :
            Len(Split(InLines[h])) < 4 => ChunkPresent(h)

C6_Witness ==
    /\ fpc = "once"
    /\ excluded_exts = EXCLUDED_EXTENSIONS
    /\ \E h \in HeaderIdx(InLines) :
           /\ InLines[h] = TruncatedHeader(PathPng)
           /\ Len(Chunk(InLines, h)) > 1
           /\ ChunkPresent(h)

\* the lines the result is made of
Expected == LinesOwnedBy(InLines, {0} \cup KeptHeaders(InLines, excluded_exts))

\* C9 as stated: the result ends with one newline and never with two.
C9_ExactlyOneNewline ==
    (Filtered /\ NonBlank) => EndsWith(result, NL) /\ ~EndsWith(result, NL \o NL)

\* C9 amended: the result ends with a newline; it is one newline when nothing
\* is kept, and it ends with exactly one newline when the last kept line is
\* not empty.
C9_TrailingNewline ==
    (Filtered /\ NonBlank) =>
        LET kept == Expected
        IN  /\ EndsWith(result, NL)
            /\ kept = <<>> => result = NL
            /\ (kept # <<>> /\ kept[Len(kept)] # <<>>) => ~EndsWith(result, NL \o NL)

C9_Witness ==
    /\ fpc = "once"
    /\ NonBlank
    /\ EndsWith(diff, NL \o NL)
    /\ Expected # <<>>
    /\ Expected[Len(Expected)] # <<>>
    /\ EndsWith(result, NL)
    /\ ~EndsWith(result, NL \o NL)

(***************************************************************************)
(* Claims about main (Spec)                                                *)
(***************************************************************************)
\* main ended at one of its three sys.exit statements
Decided == pc \in {"no_diff", "approved", "not_approved"}

C8_SourcesFailSoftly ==
    source_event \in {"CalledProcessError", "FileNotFoundError", "Invalid PR URL",
                      "RequestException"}
        => raw_diff = <<>> /\ exception = "None" /\ pc # "traceback"

StepRank(step) ==
    CASE step = "get_diff" -> 1 [] step = "filter" -> 2 [] step = "review" -> 3
      [] step = "exit" -> 4

=============================================================================
